---- MODULE Spec2Model ----
(***************************************************************************)
(* Model of fyca1975/modifarchivo: the swap reconciliation of 32_r5.py     *)
(* (SwapProcessor) and 2s_r5.py (procesar), the R5 report aggregation of   *)
(* 32_r5.py, and the two text normalizers (valida_caracteres_Esp/utils.py  *)
(* and quitaespeciales.py).                                                *)
(***************************************************************************)
EXTENDS Integers, Sequences, FiniteSets, TLC

VARIABLES variant, archivo_flujos, archivo_estim, df_resultado, df_estimaciones,
          idx, pc, modificaciones, log, df_informe, informe_resultado,
          texto, sustituido, salida, pasadas,
          data_dir, nombres, cargados, escritos, exit_code, excepcion

vars == <<variant, archivo_flujos, archivo_estim, df_resultado, df_estimaciones,
          idx, pc, modificaciones, log, df_informe, informe_resultado,
          texto, sustituido, salida, pasadas,
          data_dir, nombres, cargados, escritos, exit_code, excepcion>>

recon_vars == <<variant, archivo_flujos, archivo_estim, df_resultado, df_estimaciones,
                idx, pc, modificaciones, log>>

informe_vars == <<df_informe, informe_resultado>>

norm_vars == <<texto, sustituido, salida, pasadas>>

main_vars == <<data_dir, nombres, cargados, escritos, exit_code>>

(***************************************************************************)
(* Bounds of the model.                                                    *)
(***************************************************************************)
\* largest number of rows of a flows table
MaxFlujos == 2
\* largest number of rows of an estimates table
MaxEstim == 2
\* largest number of rows of a report table
MaxInforme == 2
\* largest number of characters of a text drawn from the whole alphabet
MaxLargo == 2
\* largest number of pieces of a text assembled from pieces
MaxTrozos == 5
\* largest number of passes of a normalizer over a text
MaxPasadas == 2

(***************************************************************************)
(* Cells.  A cell of a file is empty (null), a number, or a text that is   *)
(* no number.                                                              *)
(***************************************************************************)
Null == [tipo |-> "null", val |-> 0]
NoNum == [tipo |-> "texto", val |-> 0]
Num(n) == [tipo |-> "num", val |-> n]

\* pd.notna
notna(c) == c.tipo # "null"

\* abs()
Abs(n) == IF n < 0 THEN 0 - n ELSE n

(***************************************************************************)
(* Dates.  A date text carries its format and the calendar day it denotes  *)
(* under that format; a parsed date is <<dia, mes>> (the year is 2025      *)
(* throughout), NaT when parsing failed.                                   *)
(***************************************************************************)
NaT == <<0, 0>>

FechaTexto(f, d, m) == [fmt |-> f, dia |-> d, mes |-> m]

\* pd.to_datetime(col, format='%d/%m/%Y', errors='coerce')
to_datetime_dmy(t) == IF t.fmt = "DMY" THEN <<t.dia, t.mes>> ELSE NaT

\* pd.to_datetime(col, errors='coerce'): ISO texts are read as written, a
\* text dd/mm/yyyy is read month first whenever its first field can be a month
to_datetime_infer(t) ==
    IF t.fmt = "ISO" THEN <<t.dia, t.mes>>
    ELSE IF t.dia <= 12 THEN <<t.mes, t.dia>>
    ELSE <<t.dia, t.mes>>

\* == on datetime64 values: NaT equals nothing, itself included
FechaIgual(a, b) == a # NaT /\ b # NaT /\ a = b

(***************************************************************************)
(* Texts.  A text is a cell or a line: null, or a sequence of characters.  *)
(***************************************************************************)
TextoNulo == [nulo |-> TRUE, car |-> <<>>]
Texto(cs) == [nulo |-> FALSE, car |-> cs]

(***************************************************************************)
(* Tables.  A table is a sequence of rows, a row a record of its columns.  *)
(***************************************************************************)
FilaFlujo(c, f, p) ==
    [cod_emp |-> c, fecha_cobro |-> f, der_intereses |-> p[1],
     obl_intereses |-> p[2], der_vp |-> p[3], obl_vp |-> p[4]]

FilaEstim(c, f, disc, col) ==
    [M_CONTRACT_ |-> c, M_DATE |-> f, M_DISCFLOW |-> disc, M_FLOW_COL |-> col]

SeqsHasta(S, n) == UNION {[1..k -> S] : k \in 0..n}

\* 3 June and 6 March 2025
Junio3 == <<3, 6>>
Marzo6 == <<6, 3>>

\* the numeric fields a flow row is loaded with
SinValores == <<Null, Null, Null, Null>>
ConValores == <<Num(5), Num(6), Num(7), Num(8)>>

\* rows of a flows file for one contract, the dates written in format fmt
FilasFlujosContrato(fmt) ==
    {FilaFlujo("ABC123", FechaTexto(fmt, Junio3[1], Junio3[2]), SinValores),
     FilaFlujo("ABC123", FechaTexto(fmt, Junio3[1], Junio3[2]), ConValores),
     FilaFlujo("ABC123", FechaTexto(fmt, Marzo6[1], Marzo6[2]), ConValores)}

\* rows of a flows file for two contracts
FilasFlujos(fmt) ==
    FilasFlujosContrato(fmt)
    \cup {FilaFlujo("XYZ789", FechaTexto(fmt, Junio3[1], Junio3[2]), SinValores)}

\* the values of M_DISCFLOW and of M_FLOW_COL in an estimates file
ValoresDisc == {Null, Num(0), Num(1), Num(2), Num(0 - 3)}
ValoresCol == {Null, Num(0), Num(4), Num(0 - 5)}

\* the rows of an estimates file: every pair of values, for one key
FilasEstim(fmt) ==
    {FilaEstim("ABC123", FechaTexto(fmt, Junio3[1], Junio3[2]), v, w) :
       v \in ValoresDisc, w \in ValoresCol}

\* rows of an estimates file with cells that are no numbers
FilasEstimNoNum(fmt) ==
    {FilaEstim("ABC123", FechaTexto(fmt, Junio3[1], Junio3[2]), p[1], p[2]) :
       p \in {<<NoNum, Num(4)>>, <<Num(1), NoNum>>, <<Null, NoNum>>, <<Num(2), Num(0 - 5)>>}}

\* rows of an estimates file for two days and two contracts
FilasEstimFechas(fmt) ==
    {FilaEstim("ABC123", FechaTexto(fmt, Junio3[1], Junio3[2]), Num(1), Num(0 - 5)),
     FilaEstim("ABC123", FechaTexto(fmt, Marzo6[1], Marzo6[2]), Num(2), Num(4)),
     FilaEstim("XYZ789", FechaTexto(fmt, Junio3[1], Junio3[2]), Num(0 - 3), Num(0))}

Formatos == {"ISO", "DMY"}

\* the date format each script expects in the flows file
FormatoFlujos(v) == IF v = "32_r5" THEN "ISO" ELSE "DMY"

\* the fixture written by prueba.py
FlujosPrueba ==
    LET f == FechaTexto("ISO", 3, 6)
        z == <<Num(0), Num(0), Num(0), Num(0)>>
    IN  <<FilaFlujo("ABC123", f, z), FilaFlujo("XYZ789", f, z), FilaFlujo("ZZZ999", f, z)>>

EstimPrueba ==
    LET f == FechaTexto("DMY", 3, 6)
    IN  <<FilaEstim("ABC123", f, Num(1000), Num(0 - 1500)),
          FilaEstim("XYZ789", f, Num(0 - 2000), Num(3000))>>

(***************************************************************************)
(* Reconciliation: 32_r5.py SwapProcessor.procesar_flujos_swap and         *)
(* 2s_r5.py procesar.                                                      *)
(***************************************************************************)
Entrada(nivel, msg, n) == [nivel |-> nivel, msg |-> msg, n |-> n]

\* 2s_r5.py: fillna(0).astype(float) on the four numeric columns
fillna0(c) == IF notna(c) THEN c ELSE Num(0)

\* the flows table after the date conversion (and, in 2s_r5.py, fillna)
convertir_flujos(v, df) ==
    [j \in DOMAIN df |->
       IF v = "32_r5"
       THEN [df[j] EXCEPT !.fecha_cobro = to_datetime_infer(@)]
       ELSE [df[j] EXCEPT !.fecha_cobro = to_datetime_dmy(@),
                          !.der_intereses = fillna0(@),
                          !.obl_intereses = fillna0(@),
                          !.der_vp = fillna0(@),
                          !.obl_vp = fillna0(@)]]

\* the estimates table after the conversion of M_DATE
convertir_estim(df) ==
    [i \in DOMAIN df |-> [df[i] EXCEPT !.M_DATE = to_datetime_dmy(@)]]

\* mask, comparing the contract code alone
mask_solo_codigo(df, row) ==
    {j \in DOMAIN df : df[j].cod_emp = row.M_CONTRACT_}

\* the rows of the flows table an estimate row matches
mask(df, row) ==
    {j \in DOMAIN df : /\ df[j].cod_emp = row.M_CONTRACT_
                       /\ FechaIgual(df[j].fecha_cobro, row.M_DATE)}

\* asignar, writing a negative value without abs()
asignar_sin_abs(fila, positivo, negativo, v) ==
    IF v.tipo = "num" /\ v.val > 0 THEN [fila EXCEPT ![positivo] = Num(v.val)]
    ELSE IF v.tipo = "num" /\ v.val < 0 THEN [fila EXCEPT ![negativo] = Num(v.val)]
    ELSE fila

\* asignar, adding the value to the one the field holds
asignar_acumula(fila, positivo, negativo, v) ==
    IF v.tipo = "num" /\ v.val > 0
    THEN [fila EXCEPT ![positivo] = Num(@.val + v.val)]
    ELSE IF v.tipo = "num" /\ v.val < 0
    THEN [fila EXCEPT ![negativo] = Num(@.val + Abs(v.val))]
    ELSE fila

\* asignar, clearing both fields on a zero or null value
asignar_borra(fila, positivo, negativo, v) ==
    IF v.tipo = "num" /\ v.val > 0 THEN [fila EXCEPT ![positivo] = Num(v.val)]
    ELSE IF v.tipo = "num" /\ v.val < 0 THEN [fila EXCEPT ![negativo] = Num(Abs(v.val))]
    ELSE [fila EXCEPT ![positivo] = Num(0), ![negativo] = Num(0)]

\* the three-way branch on the sign of an estimate value
asignar(fila, positivo, negativo, v) ==
    IF v.tipo = "num" /\ v.val > 0 THEN [fila EXCEPT ![positivo] = Num(v.val)]
    ELSE IF v.tipo = "num" /\ v.val < 0 THEN [fila EXCEPT ![negativo] = Num(Abs(v.val))]
    ELSE fila

\* one estimate row applied to one flow row
aplicar(fila, row) ==
    asignar(asignar(fila, "der_intereses", "obl_intereses", row.M_DISCFLOW),
            "der_vp", "obl_vp", row.M_FLOW_COL)

\* read_csv in 32_r5.py infers the type of a column: one cell that is no
\* number makes every non-null cell of the column a str
columna_texto(df, col) == \E i \in DOMAIN df : df[i][col] = NoNum

Min(S) == CHOOSE x \in S : \A y \in S : x <= y

\* the three files of a run
Archivos == {"flujos", "estimaciones", "informe"}

\* the date both file names of the data folder carry
FechaProcesamiento == "20250603"

\* the run has found and loaded its two required files, whose names carry
\* the processing date and whose tables have every required column; the
\* report file is in the state informe
Cargado(informe) ==
    /\ data_dir = [a \in Archivos |-> IF a = "informe" THEN informe ELSE "completo"]
    /\ nombres = [csv |-> FechaProcesamiento, dat |-> FechaProcesamiento]
    /\ cargados = {"flujos", "estimaciones"}
    /\ escritos = {}
    /\ exit_code = "none"
    /\ excepcion = "none"

\* the input files of a run of script v: a flows file and an estimates file
Entradas(v) ==
    (SeqsHasta(FilasFlujosContrato(FormatoFlujos(v)), MaxFlujos)
        \X SeqsHasta(FilasEstim("DMY"), MaxEstim))
    \cup (SeqsHasta(FilasFlujos(FormatoFlujos(v)), MaxFlujos)
        \X SeqsHasta(FilasEstimNoNum("DMY"), MaxEstim))
    \cup UNION {SeqsHasta(FilasFlujos(f), MaxFlujos)
                  \X SeqsHasta(FilasEstimFechas(g), MaxEstim) :
                    f \in Formatos, g \in Formatos}
    \cup {<<FlujosPrueba, EstimPrueba>>}

Init ==
    /\ variant \in {"32_r5", "2s_r5"}
    /\ \E e \in Entradas(variant) :
          /\ archivo_flujos = e[1]
          /\ archivo_estim = e[2]
    /\ df_resultado = <<>>
    /\ df_estimaciones = <<>>
    /\ idx = 0
    /\ pc = "inicio"
    /\ modificaciones = 0
    /\ log = <<>>
    /\ df_informe = <<>>
    /\ informe_resultado = <<>>
    /\ texto = TextoNulo
    /\ sustituido = TextoNulo
    /\ salida = <<>>
    /\ pasadas = 0
    /\ Cargado("ausente")

\* the copy, the validation of the columns, which finds them all, and the
\* date conversions
Convertir ==
    /\ pc = "inicio"
    /\ data_dir["flujos"] # "sin_columna"
    /\ data_dir["estimaciones"] # "sin_columna"
    /\ df_resultado' = convertir_flujos(variant, archivo_flujos)
    /\ df_estimaciones' = convertir_estim(archivo_estim)
    /\ idx' = 1
    /\ modificaciones' = 0
    /\ log' = IF variant = "32_r5"
              THEN Append(log, Entrada("INFO", "Iniciando procesamiento de flujos swap", 0))
              ELSE log
    /\ pc' = "bucle"
    /\ UNCHANGED <<variant, archivo_flujos, archivo_estim, informe_vars, norm_vars,
                   main_vars, excepcion>>

\* one iteration of the loop over the estimate rows, 32_r5.py
IterarR5 ==
    /\ pc = "bucle"
    /\ variant = "32_r5"
    /\ idx <= Len(df_estimaciones)
    /\ LET row == df_estimaciones[idx]
           indices == mask(df_resultado, row)
           err_disc == notna(row.M_DISCFLOW) /\ columna_texto(archivo_estim, "M_DISCFLOW")
           err_col == notna(row.M_FLOW_COL) /\ columna_texto(archivo_estim, "M_FLOW_COL")
       IN  IF indices = {} THEN
               /\ idx' = idx + 1
               /\ UNCHANGED <<df_resultado, modificaciones, pc, excepcion>>
           ELSE IF err_disc THEN
               /\ pc' = "error"
               /\ excepcion' = "TypeError"
               /\ UNCHANGED <<df_resultado, modificaciones, idx>>
           ELSE IF err_col THEN
               /\ df_resultado' =
                    [df_resultado EXCEPT ![Min(indices)] =
                       asignar(@, "der_intereses", "obl_intereses", row.M_DISCFLOW)]
               /\ pc' = "error"
               /\ excepcion' = "TypeError"
               /\ UNCHANGED <<modificaciones, idx>>
           ELSE
               /\ df_resultado' =
                    [j \in DOMAIN df_resultado |->
                       IF j \in indices THEN aplicar(df_resultado[j], row)
                       ELSE df_resultado[j]]
               /\ modificaciones' = modificaciones + Cardinality(indices)
               /\ idx' = idx + 1
               /\ UNCHANGED <<pc, excepcion>>
    /\ UNCHANGED <<variant, archivo_flujos, archivo_estim, df_estimaciones, log,
                   informe_vars, norm_vars, main_vars>>

\* one iteration of the loop over the estimate rows, 2s_r5.py
IterarS2 ==
    /\ pc = "bucle"
    /\ variant = "2s_r5"
    /\ idx <= Len(df_estimaciones)
    /\ LET row == df_estimaciones[idx]
           indices == mask(df_resultado, row)
       IN  IF indices = {} THEN
               UNCHANGED <<df_resultado, log>>
           ELSE IF row.M_DISCFLOW = NoNum \/ row.M_FLOW_COL = NoNum THEN
               /\ log' = Append(log, Entrada("WARNING", "Valores no numericos en fila", idx))
               /\ UNCHANGED df_resultado
           ELSE
               /\ df_resultado' =
                    [j \in DOMAIN df_resultado |->
                       IF j \in indices THEN aplicar(df_resultado[j], row)
                       ELSE df_resultado[j]]
               /\ UNCHANGED log
    /\ idx' = idx + 1
    /\ UNCHANGED <<variant, archivo_flujos, archivo_estim, df_estimaciones,
                   modificaciones, pc, informe_vars, norm_vars, main_vars, excepcion>>

\* the end of the loop: the closing log line and the return
Finalizar ==
    /\ pc = "bucle"
    /\ idx > Len(df_estimaciones)
    /\ log' = IF variant = "32_r5"
              THEN Append(log, Entrada("INFO",
                       "Procesamiento completado. Modificaciones realizadas", modificaciones))
              ELSE Append(log, Entrada("INFO", "Archivo procesado correctamente.", 0))
    /\ pc' = "hecho"
    /\ UNCHANGED <<variant, archivo_flujos, archivo_estim, df_resultado, df_estimaciones,
                   idx, modificaciones, informe_vars, norm_vars, main_vars, excepcion>>

Next == Convertir \/ IterarR5 \/ IterarS2 \/ Finalizar

Spec == Init /\ [][Next]_vars

(***************************************************************************)
(* Aggregation: 32_r5.py SwapProcessor.procesar_informe_r5, run by         *)
(* procesar_fecha on the table procesar_flujos_swap returned.              *)
(***************************************************************************)
\* the float n / d
Cociente(n, d) == [num |-> n, den |-> d]

FilaInforme(c, cup, cup1) == [codigo_operacion |-> c, cupon |-> cup, cupon_1 |-> cup1]

\* the rows of a report file
FilasInforme ==
    {FilaInforme(c, p[1], p[2]) :
       c \in {"ABC123", "XYZ789", "NO_MATCH"},
       p \in {<<Cociente(0, 1), Cociente(0, 1)>>, <<Cociente(9, 1), Cociente(8, 1)>>}}

\* Series.fillna(0).sum() over the rows S of column campo
RECURSIVE suma(_, _, _)
suma(df, S, campo) ==
    IF S = {} THEN 0
    ELSE LET j == Min(S)
         IN  (IF notna(df[j][campo]) THEN df[j][campo].val ELSE 0)
                + suma(df, S \ {j}, campo)

\* procesar_informe_r5, setting the coupons of a row without flows to 0
procesar_informe_cero(informe, flujos) ==
    [r \in DOMAIN informe |->
       LET coincidentes ==
             {j \in DOMAIN flujos : flujos[j].cod_emp = informe[r].codigo_operacion}
       IN  [informe[r] EXCEPT
              !.cupon = Cociente(suma(flujos, coincidentes, "der_vp"), 1000000),
              !.cupon_1 = Cociente(suma(flujos, coincidentes, "obl_vp"), 1000000)]]

\* the report table procesar_informe_r5 returns
procesar_informe_r5(informe, flujos) ==
    [r \in DOMAIN informe |->
       LET coincidentes ==
             {j \in DOMAIN flujos : flujos[j].cod_emp = informe[r].codigo_operacion}
       IN  IF coincidentes # {}
           THEN [informe[r] EXCEPT
                   !.cupon = Cociente(suma(flujos, coincidentes, "der_vp"), 1000000),
                   !.cupon_1 = Cociente(suma(flujos, coincidentes, "obl_vp"), 1000000)]
           ELSE informe[r]]

\* step 4 of procesar_fecha: the report file is loaded and aggregated
ProcesarInforme ==
    /\ pc = "hecho"
    /\ variant = "32_r5"
    /\ \E informe \in SeqsHasta(FilasInforme, MaxInforme) :
          /\ df_informe' = informe
          /\ informe_resultado' = procesar_informe_r5(informe, df_resultado)
    /\ pc' = "informe"
    /\ UNCHANGED <<variant, archivo_flujos, archivo_estim, df_resultado, df_estimaciones,
                   idx, modificaciones, log, norm_vars, main_vars, excepcion>>

\* a run of 32_r5.py on files in the formats it expects, report included
InitInforme ==
    /\ variant = "32_r5"
    /\ archivo_flujos \in SeqsHasta(FilasFlujos("ISO"), MaxFlujos)
    /\ archivo_estim \in SeqsHasta(FilasEstimFechas("DMY"), MaxEstim)
    /\ df_resultado = <<>>
    /\ df_estimaciones = <<>>
    /\ idx = 0
    /\ pc = "inicio"
    /\ modificaciones = 0
    /\ log = <<>>
    /\ df_informe = <<>>
    /\ informe_resultado = <<>>
    /\ texto = TextoNulo
    /\ sustituido = TextoNulo
    /\ salida = <<>>
    /\ pasadas = 0
    /\ Cargado("completo")

NextInforme == Convertir \/ IterarR5 \/ Finalizar \/ ProcesarInforme

SpecInforme == InitInforme /\ [][NextInforme]_vars

(***************************************************************************)
(* Normalizers: valida_caracteres_Esp/utils.py limpiar_texto, applied to   *)
(* every cell, and quitaespeciales.py limpiar_texto with the replacements  *)
(* of procesar_archivos, applied to every line.                            *)
(***************************************************************************)
\* the accented vowels a e i o u, A E I O U and the two enies, by code point
Acentuadas ==
    <<"U+00E1", "U+00E9", "U+00ED", "U+00F3", "U+00FA",
      "U+00C1", "U+00C9", "U+00CD", "U+00D3", "U+00DA", "U+00F1", "U+00D1">>
SinAcento == <<"a", "e", "i", "o", "u", "A", "E", "I", "O", "U", "n", "N">>

\* the characters of the texts: the twelve, u with diaeresis, c with cedilla
\* and plain ones
Alfabeto ==
    {Acentuadas[k] : k \in DOMAIN Acentuadas} \cup {"U+00FC", "U+00E7", "a", "N", ";", "0"}

\* the pieces texts are assembled from
Trozos ==
    {<<";">>, <<"0", "3", "3">>, <<"0", "1", "1", "0", "0", "1">>, <<"0">>, <<"3">>,
     <<"U+00E9">>, <<"U+00D1">>}

RECURSIVE Concatenar(_)
Concatenar(ts) == IF ts = <<>> THEN <<>> ELSE Head(ts) \o Concatenar(Tail(ts))

\* the texts a normalizer is run on
Textos ==
    {Texto(cs) : cs \in SeqsHasta(Alfabeto, MaxLargo)}
    \cup {Texto(Concatenar(ts)) : ts \in SeqsHasta(Trozos, MaxTrozos)}

\* str.maketrans of the twelve accented characters to "aeiouAEIOUnN", applied
\* to one character
traducir(c) ==
    IF \E k \in DOMAIN Acentuadas : Acentuadas[k] = c
    THEN SinAcento[CHOOSE k \in DOMAIN Acentuadas : Acentuadas[k] = c]
    ELSE c

\* str.translate
translate(cs) == [k \in DOMAIN cs |-> traducir(cs[k])]

\* str.replace(old, new): the occurrences of old are found from the left,
\* each search resuming after the occurrence found before
RECURSIVE replace(_, _, _)
replace(cs, old, new) ==
    IF Len(cs) < Len(old) THEN cs
    ELSE IF SubSeq(cs, 1, Len(old)) = old
    THEN new \o replace(SubSeq(cs, Len(old) + 1, Len(cs)), old, new)
    ELSE <<Head(cs)>> \o replace(Tail(cs), old, new)

\* the two literal replacements
reemplazos(cs) ==
    replace(replace(cs, <<";", "0", "3", "3", ";">>, <<";", "3", "3", ";">>),
            <<";", "0", "1", "1", "0", "0", "1", ";">>,
            <<";", "1", "1", "0", "0", "1", ";">>)

\* unicodedata.normalize('NFKD', c) for one character: a base character and
\* its combining mark
NFKD(c) ==
    CASE c \in {"U+00E1", "U+00E9", "U+00ED", "U+00F3", "U+00FA", "U+00C1", "U+00C9", "U+00CD", "U+00D3", "U+00DA"} ->
            <<traducir(c), "U+0301">>
      [] c = "U+00F1" -> <<"n", "U+0303">>
      [] c = "U+00D1" -> <<"N", "U+0303">>
      [] c = "U+00FC" -> <<"u", "U+0308">>
      [] c = "U+00E7" -> <<"c", "U+0327">>
      [] OTHER -> <<c>>

\* unicodedata.combining(c) is not 0
combining(c) == c \in {"U+0301", "U+0303", "U+0308", "U+0327"}

RECURSIVE normalize(_)
normalize(cs) == IF cs = <<>> THEN <<>> ELSE NFKD(Head(cs)) \o normalize(Tail(cs))

\* quitaespeciales.py limpiar_texto on the characters of a line
limpiar_texto_quita(cs) ==
    LET sin_enie == [k \in DOMAIN cs |->
                       IF cs[k] = "U+00F1" THEN "n" ELSE IF cs[k] = "U+00D1" THEN "N" ELSE cs[k]]
    IN  SelectSeq(normalize(sin_enie), LAMBDA c : ~combining(c))

\* the text a pass of a normalizer reads: the input, or its own output
Lectura == IF pasadas = 0 THEN texto ELSE salida[pasadas]

\* utils.py limpiar_texto on one cell
LimpiarUtils ==
    /\ variant = "valida_caracteres_Esp"
    /\ pasadas < MaxPasadas
    /\ IF Lectura.nulo
       THEN /\ sustituido' = Lectura
            /\ salida' = Append(salida, Lectura)
       ELSE /\ sustituido' = Texto(translate(Lectura.car))
            /\ salida' = Append(salida, Texto(reemplazos(translate(Lectura.car))))
    /\ pasadas' = pasadas + 1
    /\ UNCHANGED <<recon_vars, informe_vars, texto, main_vars, excepcion>>

\* the body of the loop of quitaespeciales.py procesar_archivos on one line
LimpiarQuita ==
    /\ variant = "quitaespeciales"
    /\ pasadas < MaxPasadas
    /\ sustituido' = Texto(limpiar_texto_quita(Lectura.car))
    /\ salida' = Append(salida, Texto(reemplazos(limpiar_texto_quita(Lectura.car))))
    /\ pasadas' = pasadas + 1
    /\ UNCHANGED <<recon_vars, informe_vars, texto, main_vars, excepcion>>

InitNorm ==
    /\ \/ /\ variant = "valida_caracteres_Esp"
          /\ texto \in Textos \cup {TextoNulo}
       \/ /\ variant = "quitaespeciales"
          /\ texto \in Textos
    /\ sustituido = TextoNulo
    /\ salida = <<>>
    /\ pasadas = 0
    /\ archivo_flujos = <<>>
    /\ archivo_estim = <<>>
    /\ df_resultado = <<>>
    /\ df_estimaciones = <<>>
    /\ idx = 0
    /\ pc = "inicio"
    /\ modificaciones = 0
    /\ log = <<>>
    /\ df_informe = <<>>
    /\ informe_resultado = <<>>
    /\ Cargado("ausente")

NextNorm == LimpiarUtils \/ LimpiarQuita

SpecNorm == InitNorm /\ [][NextNorm]_vars

(***************************************************************************)
(* Entry points: 32_r5.py main with SwapProcessor.procesar_fecha, and      *)
(* 2s_r5.py main.  A run starts on a data folder and ends with the exit    *)
(* status of the process.                                                  *)
(***************************************************************************)
\* the states of a file of the data folder: no file matches the pattern, a
\* file with every required column, a file that lacks one, a file read_csv
\* cannot parse
Estados == {"ausente", "completo", "sin_columna", "ilegible"}

\* what the date field of a file name parses to in 2s_r5.py extraer_fecha: a
\* date, or nothing
FechasNombre == {FechaProcesamiento, "20250604", "ilegible"}

\* _buscar_archivo, every file required
buscar_archivo_requerido(estado, requerido) ==
    IF estado # "ausente" THEN "encontrado" ELSE "FileNotFoundError"

\* _buscar_archivo: a path, None, or FileNotFoundError raised
buscar_archivo(estado, requerido) ==
    IF estado # "ausente" THEN "encontrado"
    ELSE IF requerido THEN "FileNotFoundError"
    ELSE "None"

\* the contents of the two required files of a run of script v
ContenidosMain(v) ==
    SeqsHasta(FilasFlujosContrato(FormatoFlujos(v)), MaxFlujos)
        \X SeqsHasta(FilasEstimNoNum("DMY"), MaxEstim)

\* the rows of the report file of a run
FilasInformeMain ==
    {FilaInforme("ABC123", Cociente(9, 1), Cociente(8, 1)),
     FilaInforme("NO_MATCH", Cociente(9, 1), Cociente(8, 1))}

\* the start of main, on any data folder
InitMain ==
    /\ variant \in {"32_r5", "2s_r5"}
    /\ data_dir \in [Archivos -> Estados]
    /\ nombres \in [csv : FechasNombre, dat : FechasNombre]
    /\ variant = "32_r5" =>
          nombres = [csv |-> FechaProcesamiento, dat |-> FechaProcesamiento]
    /\ variant = "2s_r5" => data_dir["informe"] = "ausente"
    /\ IF data_dir["flujos"] = "completo" /\ data_dir["estimaciones"] = "completo"
       THEN \E e \in ContenidosMain(variant) :
               /\ archivo_flujos = e[1]
               /\ archivo_estim = e[2]
       ELSE /\ archivo_flujos = <<>>
            /\ archivo_estim = <<>>
    /\ cargados = {}
    /\ escritos = {}
    /\ exit_code = "none"
    /\ excepcion = "none"
    /\ df_resultado = <<>>
    /\ df_estimaciones = <<>>
    /\ idx = 0
    /\ pc = "main"
    /\ modificaciones = 0
    /\ log = <<>>
    /\ df_informe = <<>>
    /\ informe_resultado = <<>>
    /\ texto = TextoNulo
    /\ sustituido = TextoNulo
    /\ salida = <<>>
    /\ pasadas = 0

\* 32_r5.py procesar_fecha step 1: the three files are looked up
ValidarFechaArchivos ==
    /\ pc = "main"
    /\ variant = "32_r5"
    /\ LET archivos == [a \in Archivos |-> buscar_archivo(data_dir[a], a # "informe")]
           inicio == Entrada("INFO", "=== Iniciando procesamiento para fecha ===", 0)
       IN  IF \E a \in Archivos : archivos[a] = "FileNotFoundError"
           THEN /\ excepcion' = "FileNotFoundError"
                /\ log' = Append(log, inicio)
                /\ pc' = "error"
           ELSE /\ log' = log \o <<inicio, Entrada("INFO", "Archivos encontrados para fecha", 0)>>
                            \o (IF archivos["informe"] = "None"
                                THEN <<Entrada("WARNING", "informe: No encontrado", 0)>>
                                ELSE <<>>)
                /\ pc' = "validado"
                /\ UNCHANGED excepcion
    /\ UNCHANGED <<variant, archivo_flujos, archivo_estim, df_resultado, df_estimaciones,
                   idx, modificaciones, informe_vars, norm_vars, main_vars>>

\* 2s_r5.py main up to the try: the two files are looked up, the dates of
\* their names extracted and compared; each failure is logged and main returns
BuscarArchivos ==
    /\ pc = "main"
    /\ variant = "2s_r5"
    /\ LET falla ==
             IF data_dir["flujos"] = "ausente" \/ data_dir["estimaciones"] = "ausente"
             THEN "Faltan archivos .csv o .dat en la carpeta data."
             ELSE IF nombres.csv = "ilegible" \/ nombres.dat = "ilegible"
             THEN "Error extrayendo fechas"
             ELSE IF nombres.csv # nombres.dat
             THEN "Las fechas en los nombres de archivo no coinciden."
             ELSE "ninguna"
       IN  IF falla # "ninguna"
           THEN /\ log' = Append(log, Entrada("ERROR", falla, 0))
                /\ exit_code' = "0"
                /\ pc' = "salido"
           ELSE /\ pc' = "validado"
                /\ UNCHANGED <<log, exit_code>>
    /\ UNCHANGED <<variant, archivo_flujos, archivo_estim, df_resultado, df_estimaciones,
                   idx, modificaciones, informe_vars, norm_vars,
                   data_dir, nombres, cargados, escritos, excepcion>>

\* the two required files are read: 32_r5.py procesar_fecha step 2,
\* 2s_r5.py cargar_archivos
CargarArchivos ==
    /\ pc = "validado"
    /\ LET falla == data_dir["flujos"] = "ilegible" \/ data_dir["estimaciones"] = "ilegible"
       IN  /\ cargados' = IF data_dir["flujos"] = "ilegible" THEN {}
                          ELSE IF data_dir["estimaciones"] = "ilegible" /\ variant = "32_r5"
                          THEN {"flujos"}
                          ELSE IF data_dir["estimaciones"] = "ilegible" THEN {}
                          ELSE {"flujos", "estimaciones"}
           /\ excepcion' = IF falla THEN "ParserError" ELSE excepcion
           /\ pc' = IF falla THEN "error" ELSE "inicio"
           /\ log' = IF falla /\ variant = "32_r5"
                     THEN Append(log, Entrada("ERROR", "Error al cargar archivo", 0))
                     ELSE log
    /\ UNCHANGED <<variant, archivo_flujos, archivo_estim, df_resultado, df_estimaciones,
                   idx, modificaciones, informe_vars, norm_vars,
                   data_dir, nombres, escritos, exit_code>>

\* a required column of the flows or the estimates table is absent:
\* _validar_columnas of 32_r5.py raises ValueError, the column selections of
\* 2s_r5.py raise KeyError
ColumnasFaltantes ==
    /\ pc = "inicio"
    /\ data_dir["flujos"] = "sin_columna" \/ data_dir["estimaciones"] = "sin_columna"
    /\ excepcion' = IF variant = "32_r5" THEN "ValueError" ELSE "KeyError"
    /\ log' = IF variant = "32_r5"
              THEN log \o <<Entrada("INFO", "Iniciando procesamiento de flujos swap", 0),
                             Entrada("ERROR", "Columnas faltantes", 0)>>
              ELSE log
    /\ pc' = "error"
    /\ UNCHANGED <<variant, archivo_flujos, archivo_estim, df_resultado, df_estimaciones,
                   idx, modificaciones, informe_vars, norm_vars, main_vars>>

\* the reconciled flows table is written: 32_r5.py procesar_fecha lines
\* 370-373; 2s_r5.py main line 106, after which main returns
GuardarFlujos ==
    /\ pc = "hecho"
    /\ escritos' = escritos \cup {"flujos"}
    /\ log' = Append(log, Entrada("INFO", "Archivo guardado", 0))
    /\ IF variant = "32_r5"
       THEN /\ pc' = "guardado"
            /\ UNCHANGED exit_code
       ELSE /\ pc' = "salido"
            /\ exit_code' = "0"
    /\ UNCHANGED <<variant, archivo_flujos, archivo_estim, df_resultado, df_estimaciones,
                   idx, modificaciones, informe_vars, norm_vars,
                   data_dir, nombres, cargados, excepcion>>

\* 32_r5.py procesar_fecha step 4: the report, when there is one, is
\* loaded, validated, aggregated and written
Paso4 ==
    /\ pc = "guardado"
    /\ IF buscar_archivo(data_dir["informe"], FALSE) = "None" THEN
           /\ log' = log \o <<Entrada("INFO",
                                "Archivo de informe R5 no encontrado, omitiendo procesamiento", 0),
                              Entrada("INFO", "=== Procesamiento completado exitosamente ===", 0)>>
           /\ pc' = "completado"
           /\ UNCHANGED <<informe_vars, cargados, escritos, excepcion>>
       ELSE IF data_dir["informe"] = "ilegible" THEN
           /\ log' = Append(log, Entrada("ERROR", "Error al cargar archivo", 0))
           /\ excepcion' = "ParserError"
           /\ pc' = "error"
           /\ UNCHANGED <<informe_vars, cargados, escritos>>
       ELSE \E informe \in SeqsHasta(FilasInformeMain, MaxInforme) :
           /\ df_informe' = informe
           /\ cargados' = cargados \cup {"informe"}
           /\ IF data_dir["informe"] = "sin_columna"
              THEN /\ log' = log \o <<Entrada("INFO", "Iniciando procesamiento de informe R5", 0),
                                      Entrada("ERROR", "Columnas faltantes", 0)>>
                   /\ excepcion' = "ValueError"
                   /\ pc' = "error"
                   /\ UNCHANGED <<informe_resultado, escritos>>
              ELSE /\ informe_resultado' = procesar_informe_r5(informe, df_resultado)
                   /\ escritos' = escritos \cup {"informe"}
                   /\ log' = log \o <<Entrada("INFO", "Iniciando procesamiento de informe R5", 0),
                                      Entrada("INFO", "Archivo guardado", 0),
                                      Entrada("INFO",
                                        "=== Procesamiento completado exitosamente ===", 0)>>
                   /\ pc' = "completado"
                   /\ UNCHANGED excepcion
    /\ UNCHANGED <<variant, archivo_flujos, archivo_estim, df_resultado, df_estimaciones,
                   idx, modificaciones, norm_vars, data_dir, nombres, exit_code>>

\* an exception reaches the handlers: 32_r5.py procesar_fecha logs it and
\* raises it again, main prints it and calls sys.exit(1); 2s_r5.py main
\* logs it and returns
Excepcion ==
    /\ pc = "error"
    /\ log' = Append(log, Entrada("ERROR",
                 IF variant = "32_r5" THEN "Error durante el procesamiento"
                 ELSE "Ocurrio un error procesando archivos", 0))
    /\ exit_code' = IF variant = "32_r5" THEN "1" ELSE "0"
    /\ pc' = "salido"
    /\ UNCHANGED <<variant, archivo_flujos, archivo_estim, df_resultado, df_estimaciones,
                   idx, modificaciones, informe_vars, norm_vars,
                   data_dir, nombres, cargados, escritos, excepcion>>

\* 32_r5.py main after procesar_fecha returned: the closing prints, and the
\* process ends
Completar ==
    /\ pc = "completado"
    /\ exit_code' = "0"
    /\ pc' = "salido"
    /\ UNCHANGED <<variant, archivo_flujos, archivo_estim, df_resultado, df_estimaciones,
                   idx, modificaciones, log, informe_vars, norm_vars,
                   data_dir, nombres, cargados, escritos, excepcion>>

NextMain ==
    \/ ValidarFechaArchivos \/ BuscarArchivos \/ CargarArchivos \/ ColumnasFaltantes
    \/ Convertir \/ IterarR5 \/ IterarS2 \/ Finalizar
    \/ GuardarFlujos \/ Paso4 \/ Excepcion \/ Completar

SpecMain == InitMain /\ [][NextMain]_vars

(***************************************************************************)
(* Vocabulary of the properties.                                           *)
(***************************************************************************)
Terminado == pc = "hecho"

Max(S) == CHOOSE x \in S : \A y \in S : x >= y

\* estimate row i and flow row j have equal keys, as the loop compares them
Coincide(j, i) ==
    /\ df_resultado[j].cod_emp = df_estimaciones[i].M_CONTRACT_
    /\ df_resultado[j].fecha_cobro # NaT
    /\ df_resultado[j].fecha_cobro = df_estimaciones[i].M_DATE

Coincidentes(j) == {i \in DOMAIN df_estimaciones : Coincide(j, i)}

EsPositivo(c) == c.tipo = "num" /\ c.val > 0
EsNegativo(c) == c.tipo = "num" /\ c.val < 0
EsCeroONulo(c) == c.tipo = "null" \/ (c.tipo = "num" /\ c.val = 0)

\* a matching estimate row the loop applies: 2s_r5.py skips a row with a
\* cell that is no number
Aplicada(i) ==
    variant = "2s_r5" =>
        /\ df_estimaciones[i].M_DISCFLOW.tipo # "texto"
        /\ df_estimaciones[i].M_FLOW_COL.tipo # "texto"

Aplicadas(j) == {i \in Coincidentes(j) : Aplicada(i)}

\* the value of a numeric field in the flows file
EnArchivo(j, campo) == archivo_flujos[j][campo]

\* the same, a null read as 0 by 2s_r5.py
Leido(j, campo) ==
    IF variant = "2s_r5" /\ EnArchivo(j, campo).tipo = "null" THEN Num(0)
    ELSE EnArchivo(j, campo)

\* what the claim C1 says of column col, written to campo_pos / campo_neg
C1_Columna(col, campo_pos, campo_neg) ==
    \A j \in DOMAIN df_resultado : \A i \in Aplicadas(j) :
            /\ EsPositivo(df_estimaciones[i][col]) =>
                  /\ df_resultado[j][campo_pos] = df_estimaciones[i][col]
                  /\ df_resultado[j][campo_neg] = Leido(j, campo_neg)
            /\ EsNegativo(df_estimaciones[i][col]) =>
                  df_resultado[j][campo_neg] = Num(Abs(df_estimaciones[i][col].val))

\* C1 as claimed: after reconciliation every matching estimate row (that
\* 2s_r5.py did not skip as non-numeric) with a positive M_DISCFLOW has
\* der_intereses equal to it and obl_intereses as in the input (an input
\* null that 2s_r5.py reads as 0 counted as unchanged), every one with a
\* negative M_DISCFLOW has obl_intereses equal to its absolute value; the
\* same for M_FLOW_COL with der_vp and obl_vp.
C1_Original ==
    Terminado =>
        /\ C1_Columna("M_DISCFLOW", "der_intereses", "obl_intereses")
        /\ C1_Columna("M_FLOW_COL", "der_vp", "obl_vp")

C1_UltimaColumna(col, campo_pos, campo_neg) ==
    \A j \in DOMAIN df_resultado :
        LET pos == {i \in Aplicadas(j) : EsPositivo(df_estimaciones[i][col])}
            neg == {i \in Aplicadas(j) : EsNegativo(df_estimaciones[i][col])}
        IN  /\ pos # {} => df_resultado[j][campo_pos] = df_estimaciones[Max(pos)][col]
            /\ (pos # {} /\ neg = {}) => df_resultado[j][campo_neg] = Leido(j, campo_neg)
            /\ neg # {} =>
                  df_resultado[j][campo_neg] = Num(Abs(df_estimaciones[Max(neg)][col].val))

\* C1 amended: after reconciliation, for every flow row, der_intereses equals
\* the M_DISCFLOW of the last applied matching estimate row with a positive
\* M_DISCFLOW, obl_intereses is as in the input (null read as 0 by 2s_r5.py)
\* when no applied matching row has a negative M_DISCFLOW, and otherwise
\* equals the absolute value of the last negative one; the same for
\* M_FLOW_COL with der_vp and obl_vp.
C1_Theorem ==
    Terminado =>
        /\ C1_UltimaColumna("M_DISCFLOW", "der_intereses", "obl_intereses")
        /\ C1_UltimaColumna("M_FLOW_COL", "der_vp", "obl_vp")

\* a flow row with initial values, matched by a negative and then by a
\* positive M_DISCFLOW, after reconciliation
C1_Witness ==
    /\ Terminado
    /\ \E j \in DOMAIN df_resultado : \E i1, i2 \in Aplicadas(j) :
          /\ i1 < i2
          /\ EsNegativo(df_estimaciones[i1].M_DISCFLOW)
          /\ EsPositivo(df_estimaciones[i2].M_DISCFLOW)
          /\ EsNegativo(df_estimaciones[i2].M_FLOW_COL)
          /\ EnArchivo(j, "der_intereses") = Num(5)

Campos == {"der_intereses", "obl_intereses", "der_vp", "obl_vp"}

\* C2 as claimed: a flow row that matches no estimate row has its four
\* numeric fields after reconciliation exactly as in the input, null included.
C2_Original ==
    Terminado =>
        \A j \in DOMAIN df_resultado :
            Coincidentes(j) = {} =>
                \A campo \in Campos : df_resultado[j][campo] = EnArchivo(j, campo)

\* C2 amended: a flow row that matches no estimate row has its four numeric
\* fields after reconciliation as in the input, except that 2s_r5.py has
\* replaced a null field by 0; 32_r5.py leaves a null field null.
C2_Theorem ==
    Terminado =>
        \A j \in DOMAIN df_resultado :
            Coincidentes(j) = {} =>
                \A campo \in Campos : df_resultado[j][campo] = Leido(j, campo)

\* after a reconciliation that changed a flow row, another flow row with
\* the same contract code and another date matches no estimate row
C2_Witness ==
    /\ Terminado
    /\ \E j, k \in DOMAIN df_resultado :
          /\ Coincidentes(j) = {}
          /\ df_resultado[j].cod_emp = df_resultado[k].cod_emp
          /\ EnArchivo(j, "der_vp") = Num(7)
          /\ Coincidentes(k) # {}
          /\ df_resultado[k].der_vp # Leido(k, "der_vp")

\* estimate row i writes the field campo of a flow row it is applied to
Escribe(i, campo) ==
    CASE campo = "der_intereses" -> EsPositivo(df_estimaciones[i].M_DISCFLOW)
      [] campo = "obl_intereses" -> EsNegativo(df_estimaciones[i].M_DISCFLOW)
      [] campo = "der_vp" -> EsPositivo(df_estimaciones[i].M_FLOW_COL)
      [] campo = "obl_vp" -> EsNegativo(df_estimaciones[i].M_FLOW_COL)

\* the value it writes there
ValorEscrito(i, campo) ==
    IF campo \in {"der_intereses", "obl_intereses"}
    THEN Num(Abs(df_estimaciones[i].M_DISCFLOW.val))
    ELSE Num(Abs(df_estimaciones[i].M_FLOW_COL.val))

\* C3 as claimed: a flow row matched by several estimate rows reflects the
\* last of them alone: every numeric field is what that row writes, or the
\* input value when that row does not write the field.
C3_Original ==
    Terminado =>
        \A j \in DOMAIN df_resultado :
            Cardinality(Coincidentes(j)) >= 2 =>
                LET ultima == Max(Coincidentes(j))
                IN  \A campo \in Campos :
                       df_resultado[j][campo] =
                          IF Escribe(ultima, campo) THEN ValorEscrito(ultima, campo)
                          ELSE Leido(j, campo)

\* C3 amended: last-write-wins holds field by field: with several applied
\* matching estimate rows, each numeric field of the flow row holds the value
\* written by the last of them that writes that field (no accumulation), so
\* the value of an earlier row stays wherever no later row writes the field,
\* and a field none of them writes keeps its input value.
C3_Theorem ==
    Terminado =>
        \A j \in DOMAIN df_resultado :
            Cardinality(Aplicadas(j)) >= 2 =>
                \A campo \in Campos :
                    LET escriben == {i \in Aplicadas(j) : Escribe(i, campo)}
                    IN  df_resultado[j][campo] =
                           IF escriben = {} THEN Leido(j, campo)
                           ELSE ValorEscrito(Max(escriben), campo)

\* a flow row matched by two estimate rows with different positive
\* M_DISCFLOW, the second with a zero or null M_FLOW_COL after a first that
\* wrote der_vp
C3_Witness ==
    /\ Terminado
    /\ \E j \in DOMAIN df_resultado : \E i1, i2 \in Aplicadas(j) :
          /\ i1 < i2
          /\ EsPositivo(df_estimaciones[i1].M_DISCFLOW)
          /\ EsPositivo(df_estimaciones[i2].M_DISCFLOW)
          /\ df_estimaciones[i1].M_DISCFLOW # df_estimaciones[i2].M_DISCFLOW
          /\ EsPositivo(df_estimaciones[i1].M_FLOW_COL)
          /\ EsCeroONulo(df_estimaciones[i2].M_FLOW_COL)

\* the calendar day a date text of a file denotes
DiaDenotado(t) == <<t.dia, t.mes>>

\* C4 as claimed: the returned flows table has the rows of the input in the
\* same number and order, and cod_emp and fecha_cobro of every row have the
\* value they had on input.
C4_Original ==
    Terminado =>
        /\ Len(df_resultado) = Len(archivo_flujos)
        /\ \A j \in DOMAIN df_resultado :
              /\ df_resultado[j].cod_emp = archivo_flujos[j].cod_emp
              /\ df_resultado[j].fecha_cobro = DiaDenotado(archivo_flujos[j].fecha_cobro)

\* an iteration of the loop is about to apply estimate row idx
EnIteracion == pc = "bucle" /\ idx <= Len(df_estimaciones)

C5_Columna(col, campo_pos, campo_neg) ==
    (EnIteracion /\ EsCeroONulo(df_estimaciones[idx][col])) =>
        \A j \in DOMAIN df_resultado :
            /\ df_resultado'[j][campo_pos] = df_resultado[j][campo_pos]
            /\ df_resultado'[j][campo_neg] = df_resultado[j][campo_neg]

\* C5: the iteration that applies an estimate row whose M_DISCFLOW is 0 or
\* null changes der_intereses and obl_intereses of no flow row; the same for
\* M_FLOW_COL with der_vp and obl_vp.
C5_Theorem ==
    [][/\ C5_Columna("M_DISCFLOW", "der_intereses", "obl_intereses")
       /\ C5_Columna("M_FLOW_COL", "der_vp", "obl_vp")]_vars

\* an estimate row with M_DISCFLOW 0 and a nonzero M_FLOW_COL has just been
\* applied to a flow row whose der_intereses an earlier row had set
C5_Witness ==
    /\ pc = "bucle"
    /\ idx = 3
    /\ Len(df_estimaciones) >= 2
    /\ df_estimaciones[2].M_DISCFLOW = Num(0)
    /\ EsPositivo(df_estimaciones[2].M_FLOW_COL)
    /\ EsPositivo(df_estimaciones[1].M_DISCFLOW)
    /\ \E j \in DOMAIN df_resultado :
          /\ {1, 2} \subseteq Aplicadas(j)
          /\ df_resultado[j].der_intereses = df_estimaciones[1].M_DISCFLOW
          /\ df_resultado[j].der_vp = df_estimaciones[2].M_FLOW_COL

\* the numeric fields of a row of the returned flows table
Valores(j) ==
    <<df_resultado[j].der_intereses, df_resultado[j].obl_intereses,
      df_resultado[j].der_vp, df_resultado[j].obl_vp>>

\* C9 as claimed: dates are compared as calendar days: a flow row and an
\* estimate row with the same contract code whose date texts denote the same
\* day match whatever their formats, and on the files of prueba.py the
\* reconciliation returns ABC123 with der_intereses 1000 and obl_vp 1500,
\* XYZ789 with obl_intereses 2000 and der_vp 3000 and ZZZ999 all zero.
C9_Original ==
    Terminado =>
        /\ \A i \in DOMAIN archivo_estim : \A j \in DOMAIN archivo_flujos :
              (/\ archivo_flujos[j].cod_emp = archivo_estim[i].M_CONTRACT_
               /\ DiaDenotado(archivo_flujos[j].fecha_cobro)
                     = DiaDenotado(archivo_estim[i].M_DATE))
                 => Coincide(j, i)
        /\ (archivo_flujos = FlujosPrueba /\ archivo_estim = EstimPrueba) =>
              /\ Valores(1) = <<Num(1000), Num(0), Num(0), Num(1500)>>
              /\ Valores(2) = <<Num(0), Num(2000), Num(3000), Num(0)>>
              /\ Valores(3) = <<Num(0), Num(0), Num(0), Num(0)>>

\* the estimate rows that match no flow row
SinCoincidencia ==
    {i \in DOMAIN df_estimaciones : \A j \in DOMAIN df_resultado : ~Coincide(j, i)}

\* a log entry that reports estimate rows without a match: a warning that
\* names such a row, or their number
InformaSinCoincidencia(e) ==
    \/ /\ e.nivel = "WARNING"
       /\ e.msg = "Fila de estimacion sin coincidencia"
       /\ e.n \in SinCoincidencia
    \/ /\ e.msg = "Filas de estimacion sin coincidencia"
       /\ e.n = Cardinality(SinCoincidencia)

\* C10 as claimed: when reconciliation ends and some estimate row matched
\* no flow row, the log of the run holds a warning for such a row or the
\* number of such rows.
C10_Original ==
    (Terminado /\ SinCoincidencia # {}) =>
        \E k \in DOMAIN log : InformaSinCoincidencia(log[k])

\* a / b = c / d
IgualQ(x, y) == x.num * y.den = y.num * x.den

\* the sum of column campo over the rows 1..n of the returned flows table
\* whose cod_emp is codigo, a null counted as 0
RECURSIVE SumaCodigo(_, _, _)
SumaCodigo(n, codigo, campo) ==
    IF n = 0 THEN 0
    ELSE SumaCodigo(n - 1, codigo, campo)
           + (IF df_resultado[n].cod_emp = codigo /\ df_resultado[n][campo].tipo = "num"
              THEN df_resultado[n][campo].val ELSE 0)

\* C6: procesar_informe_r5 on the reconciled flows table gives every report
\* row whose codigo_operacion is the cod_emp of some flow row a cupon equal to
\* the sum of der_vp over all those flow rows (null as 0, whatever their
\* dates) divided by 1,000,000 and a cupon_1 equal to the same sum of obl_vp
\* divided by 1,000,000, and returns every other report row with its cupon
\* and cupon_1 as they were.
C6_Theorem ==
    pc = "informe" =>
        /\ Len(informe_resultado) = Len(df_informe)
        /\ \A r \in DOMAIN df_informe :
              LET codigo == df_informe[r].codigo_operacion
              IN  /\ informe_resultado[r].codigo_operacion = codigo
                  /\ IF \E j \in DOMAIN df_resultado : df_resultado[j].cod_emp = codigo
                     THEN /\ IgualQ(informe_resultado[r].cupon,
                                Cociente(SumaCodigo(Len(df_resultado), codigo, "der_vp"),
                                         1000000))
                          /\ IgualQ(informe_resultado[r].cupon_1,
                                Cociente(SumaCodigo(Len(df_resultado), codigo, "obl_vp"),
                                         1000000))
                     ELSE /\ informe_resultado[r].cupon = df_informe[r].cupon
                          /\ informe_resultado[r].cupon_1 = df_informe[r].cupon_1

\* a report with a row for a contract with two reconciled flow rows of
\* different dates, and a row with nonzero coupons for a contract without flows
C6_Witness ==
    /\ pc = "informe"
    /\ \E r1, r2 \in DOMAIN df_informe :
          /\ \E j, k \in DOMAIN df_resultado :
                /\ df_resultado[j].cod_emp = df_informe[r1].codigo_operacion
                /\ df_resultado[k].cod_emp = df_informe[r1].codigo_operacion
                /\ df_resultado[j].fecha_cobro # df_resultado[k].fecha_cobro
                /\ df_resultado[j].der_vp # archivo_flujos[j].der_vp
                /\ df_resultado[k].der_vp.tipo = "num"
          /\ \A j \in DOMAIN df_resultado :
                df_resultado[j].cod_emp # df_informe[r2].codigo_operacion
          /\ df_informe[r2].cupon = Cociente(9, 1)
          /\ informe_resultado[r2].cupon = Cociente(9, 1)

\* C7 as claimed: a second pass of a normalizer over its own output changes
\* nothing.
C7_Original == pasadas >= 2 => salida[2] = salida[1]

\* the substitution of the twelve characters, every other one left as it is
Doce(c) ==
    CASE c = "U+00E1" -> "a" [] c = "U+00E9" -> "e" [] c = "U+00ED" -> "i" [] c = "U+00F3" -> "o"
      [] c = "U+00FA" -> "u" [] c = "U+00C1" -> "A" [] c = "U+00C9" -> "E" [] c = "U+00CD" -> "I"
      [] c = "U+00D3" -> "O" [] c = "U+00DA" -> "U" [] c = "U+00F1" -> "n" [] c = "U+00D1" -> "N"
      [] OTHER -> c

\* C8 as claimed: the character substitution of either normalizer replaces
\* the twelve characters and leaves every other character as it is.
C8_Original ==
    (pasadas = 1 /\ ~texto.nulo) =>
        /\ Len(sustituido.car) = Len(texto.car)
        /\ \A k \in DOMAIN texto.car : sustituido.car[k] = Doce(texto.car[k])

\* the estimate rows with a cell of M_DISCFLOW or M_FLOW_COL that is no number
NoNumericas ==
    {i \in DOMAIN archivo_estim :
       archivo_estim[i].M_DISCFLOW = NoNum \/ archivo_estim[i].M_FLOW_COL = NoNum}

\* the flows table df after the rows i, i + 1, ... of the estimates est have
\* been applied to it in order, the rows in omitidas left out
RECURSIVE Reconciliada(_, _, _, _)
Reconciliada(df, est, i, omitidas) ==
    IF i > Len(est) THEN df
    ELSE IF i \in omitidas THEN Reconciliada(df, est, i + 1, omitidas)
    ELSE Reconciliada([j \in DOMAIN df |->
                          IF j \in mask(df, est[i]) THEN aplicar(df[j], est[i])
                          ELSE df[j]],
                      est, i + 1, omitidas)

\* the log holds a warning about estimate row i
Advertida(i) == \E k \in DOMAIN log : log[k].nivel = "WARNING" /\ log[k].n = i

\* C11 as claimed: reconciliation never aborts on an estimate row with a
\* cell that is no number; when it ends, the flows table it returns is the
\* one it returns for the same files with those rows absent, and the log
\* holds a warning for every such row that matches a flow row (a row that
\* matches none has nothing to skip).
C11_Original ==
    /\ pc # "error"
    /\ Terminado =>
          /\ df_resultado = Reconciliada(convertir_flujos(variant, archivo_flujos),
                                         convertir_estim(archivo_estim), 1, NoNumericas)
          /\ \A i \in NoNumericas :
                (\E j \in DOMAIN df_resultado : Coincide(j, i)) => Advertida(i)

\* the flow rows reconciliation wrote a field of
Modificadas ==
    {j \in DOMAIN df_resultado :
       \E i \in Aplicadas(j) : \E campo \in Campos : Escribe(i, campo)}

\* the number in the closing log line of procesar_flujos_swap
Registradas == log[Len(log)].n

\* C15 as claimed: the number of modifications procesar_flujos_swap logs is
\* the number of flow rows it modified: a row matched only by estimate rows
\* whose two values are 0 or null is not counted, a row matched by several
\* estimate rows is counted once.
C15_Original ==
    (Terminado /\ variant = "32_r5") => Registradas = Cardinality(Modificadas)

\* the log holds an error
HuboError == \E k \in DOMAIN log : log[k].nivel = "ERROR"

\* a required input file is missing from the data folder
RequeridoAusente ==
    data_dir["flujos"] = "ausente" \/ data_dir["estimaciones"] = "ausente"

\* the run hit an error it did not recover from: a required file missing,
\* the date of a file name unparseable or another one than that of the other
\* name (2s_r5.py reads the names), or an exception while loading, validating
\* or processing
Fallida ==
    \/ RequeridoAusente
    \/ variant = "2s_r5" /\ (nombres.csv = "ilegible" \/ nombres.dat = "ilegible"
                               \/ nombres.csv # nombres.dat)
    \/ excepcion # "none"

\* C12 as claimed: when the process of either entry point has ended, its
\* exit status is zero if the run completed normally, and if the run hit an
\* unrecovered error the log holds the error and the exit status is not zero.
C12_Original ==
    pc = "salido" =>
        IF Fallida THEN HuboError /\ exit_code # "0" ELSE exit_code = "0"

\* C13 as claimed: in a run of procesar_fecha on a flows, estimates or
\* report file that lacks a required column no loop over rows is ever
\* entered, no output file and no report field is written, and the run
\* ends with an exception.
C13_Original ==
    (variant = "32_r5" /\ \E a \in Archivos : data_dir[a] = "sin_columna") =>
        /\ pc \in {"main", "validado", "inicio", "error", "salido"}
        /\ escritos = {}
        /\ informe_resultado = <<>>
        /\ pc = "salido" => excepcion # "none"

\* procesar_flujos_swap has returned the flows table
Reconciliado ==
    \E k \in DOMAIN log :
        log[k].msg = "Procesamiento completado. Modificaciones realizadas"

\* C14: in a run of procesar_fecha with the flows or the estimates file
\* missing, FileNotFoundError is raised in the first step, no file is ever
\* loaded, no output is ever written and the process exits with status 1;
\* with both present and the report file alone missing, FileNotFoundError
\* is never raised, no report is ever loaded, aggregated or written, and
\* once reconciliation has returned the flows table the run goes on without
\* an exception, writes the flows output and nothing else, and exits with
\* status 0.
C14_Theorem ==
    variant = "32_r5" =>
        /\ RequeridoAusente =>
              /\ pc \in {"main", "error", "salido"}
              /\ pc # "main" => excepcion = "FileNotFoundError"
              /\ cargados = {}
              /\ escritos = {}
              /\ pc = "salido" => exit_code = "1"
        /\ (~RequeridoAusente /\ data_dir["informe"] = "ausente") =>
              /\ excepcion # "FileNotFoundError"
              /\ "informe" \notin cargados \cup escritos
              /\ df_informe = <<>>
              /\ informe_resultado = <<>>
              /\ Reconciliado =>
                    /\ pc \in {"hecho", "guardado", "completado", "salido"}
                    /\ excepcion = "none"
                    /\ pc # "hecho" => escritos = {"flujos"}
                    /\ pc = "salido" => exit_code = "0" /\ ~HuboError

\* a run of procesar_fecha without a report file has reconciled a flow
\* row, written the flows output and exited with status 0
C14_Witness ==
    /\ variant = "32_r5"
    /\ ~RequeridoAusente
    /\ data_dir["informe"] = "ausente"
    /\ pc = "salido"
    /\ exit_code = "0"
    /\ escritos = {"flujos"}
    /\ modificaciones > 0
    /\ \E k \in DOMAIN log :
          log[k].msg = "Archivo de informe R5 no encontrado, omitiendo procesamiento"

====
